---------------------------- MODULE Spec2Model ----------------------------
(***************************************************************************)
(* A model of constant_sandbox: the box enforcement engine                 *)
(* (src/src/ruby_box.rs), the extraction pipeline and the three commands   *)
(* (src/src/main.rs, src/src/parser/mod.rs).                               *)
(*                                                                         *)
(* Strings (namespaces, paths, regex and glob patterns) are sequences of   *)
(* one-character strings, so that splitting, joining, substring search     *)
(* and path-component comparison are computed, not assumed.                *)
(***************************************************************************)
EXTENDS Naturals, Sequences, FiniteSets, TLC

VARIABLES
    pc,          \* position of the main thread / of the running command
    box_path,    \* the box document's location (a path string)
    ruby_box,    \* the RubyBox handed to enforce_box: [imports, exports]
    ignores,     \* the compiled ignore globs handed to enforce_box
    defs,        \* the corpus: Vec<Definition>
    rels,        \* the corpus: Vec<Relation>
    violations,  \* the Vec<BoxViolation> last returned by enforce_box
    cpus,        \* parse_ruby: the pool size, num_cpus::get()
    entries,     \* parse_ruby: what glob("**/*.rb") yields, in order
    sent,        \* parse_ruby: how many entries the producer has handed over
    joined,      \* parse_ruby: how many workers the main thread has joined
    wpc,         \* per worker: its position in parser::worker
    wcur,        \* per worker: the index of the entry it holds
    cpc,         \* the results collector's position
    results,     \* the results collector's Vec<RubyFile>
    handed,      \* the Vec<RubyFile> received by the main thread
    ignore_args, \* the -i values of the command line, as written
    disk,        \* command_init: the box document at the given path
    docs,        \* command_verify: what glob("**/box.yml") yields, in order
    vidx,        \* command_verify: how many box documents the loop has passed
    has_errors,  \* command_verify: the failure flag
    evaluated,   \* command_verify: every call of enforce_box, with its result
    ast,         \* ruby_file: result.ast, the syntax tree of one file (or none)
    walk,        \* ruby_file: the visitor's pending calls, innermost first
    visitor      \* ruby_file: the ExtractConsts value (file, parents, ruby_file)

enforceVars == <<box_path, ruby_box, ignores, violations>>
corpusVars == <<defs, rels>>
pipeVars == <<cpus, entries, sent, joined, wpc, wcur, cpc, results, handed>>
cmdVars == <<ignore_args, disk, docs, vidx, has_errors, evaluated>>
visitVars == <<ast, walk, visitor>>
vars == <<pc, enforceVars, corpusVars, pipeVars, cmdVars, visitVars>>

-----------------------------------------------------------------------------
(* Strings *)

Range(s) == {s[i] : i \in 1..Len(s)}

\* Vec::pop: removes the last element; on an empty Vec it does nothing.
pop(v) == IF v = <<>> THEN <<>> ELSE SubSeq(v, 1, Len(v) - 1)

MatchAt(s, sep, i) == i + Len(sep) - 1 <= Len(s) /\ SubSeq(s, i, i + Len(sep) - 1) = sep

\* str::split(sep): the pieces between the non-overlapping occurrences of
\* sep, scanning from the left; always at least one piece ("" gives [""]).
RECURSIVE split(_, _)
split(s, sep) ==
    LET hits == {i \in 1..Len(s) : MatchAt(s, sep, i)}
    IN  IF hits = {} THEN <<s>>
        ELSE LET i == CHOOSE h \in hits : \A k \in hits : h <= k
             IN  <<SubSeq(s, 1, i - 1)>> \o split(SubSeq(s, i + Len(sep), Len(s)), sep)

\* [&str]::join(sep)
RECURSIVE join(_, _)
join(parts, sep) ==
    IF parts = <<>> THEN <<>>
    ELSE IF Len(parts) = 1 THEN parts[1]
    ELSE parts[1] \o sep \o join(Tail(parts), sep)

NsSep == <<":", ":">>
PathSep == <<"/">>

-----------------------------------------------------------------------------
(* Paths: std::path *)

\* Path::components of a relative path: the non-empty pieces between "/".
components(p) == SelectSeq(split(p, PathSep), LAMBDA c : c # <<>>)

\* Path::parent is None for the empty path (and for a root), Some otherwise.
has_parent(p) == components(p) # <<>>

\* Path::parent, as the components of the parent directory.
parent(p) == pop(components(p))

\* Path::starts_with: a prefix test on whole components.
starts_with(p, base_components) ==
    LET c == components(p)
    IN  /\ Len(base_components) <= Len(c)
        /\ SubSeq(c, 1, Len(base_components)) = base_components

-----------------------------------------------------------------------------
(* Patterns: regex::Regex and glob::Pattern *)

\* Regex::new fails on a pattern with an unclosed group.
regex_compiles(p) ==
    Cardinality({i \in 1..Len(p) : p[i] = "("}) = Cardinality({i \in 1..Len(p) : p[i] = ")"})

\* The literal body of a pattern at position i of s ("." is any character).
LitMatchAt(lit, s, i) ==
    /\ i + Len(lit) - 1 <= Len(s)
    /\ \A k \in 1..Len(lit) : lit[k] = "." \/ lit[k] = s[i + k - 1]

\* Regex::is_match: an unanchored search; "^" and "$" anchor the ends.
is_match(p, s) ==
    LET a   == p # <<>> /\ Head(p) = "^"
        p1  == IF a THEN Tail(p) ELSE p
        z   == p1 # <<>> /\ p1[Len(p1)] = "$"
        lit == IF z THEN pop(p1) ELSE p1
    IN  \E i \in (IF a THEN {1} ELSE 1..(Len(s) + 1)) :
            /\ LitMatchAt(lit, s, i)
            /\ z => i + Len(lit) - 1 = Len(s)

\* glob::Pattern::new fails on an unclosed character class.
glob_compiles(g) == \A i \in 1..Len(g) : g[i] = "[" => \E j \in (i + 1)..Len(g) : g[j] = "]"

\* glob::Pattern::matches with the default options: the whole string must
\* match; "*" is any run of characters (separators included), "?" any one.
RECURSIVE glob_matches(_, _)
glob_matches(g, s) ==
    IF g = <<>> THEN s = <<>>
    ELSE IF Head(g) = "*"
         THEN \E k \in 0..Len(s) : glob_matches(Tail(g), SubSeq(s, k + 1, Len(s)))
    ELSE IF Head(g) = "?"
         THEN s # <<>> /\ glob_matches(Tail(g), Tail(s))
    ELSE s # <<>> /\ Head(s) = Head(g) /\ glob_matches(Tail(g), Tail(s))

-----------------------------------------------------------------------------
(* The enforcement engine: ruby_box.rs *)

NonImportedReference == "NonImportedReference"
NonExportedReference == "NonExportedReference"

Definition(ns, file) == [namespace |-> ns, file |-> file, line |-> 0, lines |-> 0]
Relation(caller, ns, file, line) ==
    [namespace |-> ns, file |-> file, line |-> line, caller_namespace |-> caller]
RubyBox(imports, exports) == [imports |-> imports, exports |-> exports]
BoxViolation(dir, rel) == [dir |-> dir, rel |-> rel]

\* A plausible slip: the candidate that drops three segments is left out.
matches_to_self_no_ns4(rel, ds) ==
    LET parts == split(rel.caller_namespace, NsSep)
        ns1 == join(pop(parts) \o <<rel.namespace>>, NsSep)
        ns2 == join(parts \o <<rel.namespace>>, NsSep)
        ns3 == join(pop(pop(parts)) \o <<rel.namespace>>, NsSep)
    IN  \E i \in 1..Len(ds) :
            \/ ds[i].namespace = rel.namespace
            \/ ds[i].namespace = ns1
            \/ ds[i].namespace = ns2
            \/ ds[i].namespace = ns3

\* A plausible slip: the comparison with the referenced namespace itself
\* is left out, so only the caller-derived candidates exempt.
matches_to_self_no_exact(rel, ds) ==
    LET parts == split(rel.caller_namespace, NsSep)
        ns1 == join(pop(parts) \o <<rel.namespace>>, NsSep)
        ns2 == join(parts \o <<rel.namespace>>, NsSep)
        ns3 == join(pop(pop(parts)) \o <<rel.namespace>>, NsSep)
        ns4 == join(pop(pop(pop(parts))) \o <<rel.namespace>>, NsSep)
    IN  \E i \in 1..Len(ds) :
            \/ ds[i].namespace = ns1
            \/ ds[i].namespace = ns2
            \/ ds[i].namespace = ns3
            \/ ds[i].namespace = ns4

matches_to_self(rel, ds) ==
    LET parts == split(rel.caller_namespace, NsSep)
        ns1 == join(pop(parts) \o <<rel.namespace>>, NsSep)
        ns2 == join(parts \o <<rel.namespace>>, NsSep)
        ns3 == join(pop(pop(parts)) \o <<rel.namespace>>, NsSep)
        ns4 == join(pop(pop(pop(parts))) \o <<rel.namespace>>, NsSep)
    IN  \E i \in 1..Len(ds) :
            \/ ds[i].namespace = rel.namespace
            \/ ds[i].namespace = ns1
            \/ ds[i].namespace = ns2
            \/ ds[i].namespace = ns3
            \/ ds[i].namespace = ns4

\* A plausible slip: the Definition's namespace searched for in the
\* referenced namespace instead of compared with it.
not_exported_search(r, rb, defs_in_box, igs) ==
    /\ \A k \in 1..Len(igs) : ~glob_matches(igs[k], r.file)
    /\ \E k \in 1..Len(defs_in_box) : is_match(defs_in_box[k].namespace, r.namespace)
    /\ ~\E k \in 1..Len(rb.exports) : is_match(rb.exports[k], r.namespace)

\* The export filter of enforce_box on one Relation.
not_exported(r, rb, defs_in_box, igs) ==
    /\ \A k \in 1..Len(igs) : ~glob_matches(igs[k], r.file)
    /\ \E k \in 1..Len(defs_in_box) : defs_in_box[k].namespace = r.namespace
    /\ ~\E k \in 1..Len(rb.exports) : is_match(rb.exports[k], r.namespace)

\* A plausible slip: the ignore globs applied to the import filter too.
not_imported_ignoring(r, rb, box_dir, defs_in_box, igs) ==
    /\ \A k \in 1..Len(igs) : ~glob_matches(igs[k], r.file)
    /\ starts_with(r.file, box_dir)
    /\ ~(\/ \E k \in 1..Len(rb.imports) : is_match(rb.imports[k], r.namespace)
         \/ matches_to_self(r, defs_in_box))

\* The import filter of enforce_box on one Relation.
not_imported(r, rb, box_dir, defs_in_box, igs) ==
    /\ starts_with(r.file, box_dir)
    /\ ~(\/ \E k \in 1..Len(rb.imports) : is_match(rb.imports[k], r.namespace)
         \/ matches_to_self(r, defs_in_box))

ToViolations(rs, dir) == [i \in 1..Len(rs) |-> BoxViolation(dir, rs[i])]

enforce_box(bp, rb, ds, rs, igs) ==
    IF ~has_parent(bp) THEN <<>>
    ELSE
        LET box_dir     == parent(bp)
            defs_in_box == SelectSeq(ds, LAMBDA d : starts_with(d.file, box_dir))
            rels_not_exported ==
                SelectSeq(rs, LAMBDA r : not_exported(r, rb, defs_in_box, igs))
            rels_inside_box_not_imported ==
                SelectSeq(rs, LAMBDA r : not_imported(r, rb, box_dir, defs_in_box, igs))
        IN  ToViolations(rels_not_exported, NonExportedReference)
                \o ToViolations(rels_inside_box_not_imported, NonImportedReference)

-----------------------------------------------------------------------------
(* Inputs of the enforcement engine *)

NsA == <<"A">>
NsB == <<"B">>
NsC == <<"C">>
NsZ == <<"Z">>
Qualified(outer, inner) == outer \o NsSep \o inner
NsAB == Qualified(NsA, NsB)

FileMod == <<"m", "/", "a">>          \* a source file in directory m
FileMod2 == <<"m", "2", "/", "a">>    \* a source file in the sibling directory m2
FileTop == <<"a">>                    \* a source file in the working directory

BoxMod == <<"m", "/", "b">>           \* a box document in directory m
BoxRoot == <<"b">>                    \* a box document in the working directory
BoxNone == <<>>                       \* a location with no parent directory

BoxPaths == {BoxMod, BoxRoot, BoxNone}

RelAZ == Relation(NsA, NsZ, FileMod, 1)
RelBA == Relation(NsB, NsA, FileMod2, 1)
RelAB == Relation(NsA, NsB, FileMod, 2)
RelBAB == Relation(NsB, NsAB, FileMod2, 2)
RelTopA == Relation(<<>>, NsA, FileTop, 1)

RelPool == {RelAZ, RelBA, RelAB, RelBAB, RelTopA}

DefChoices ==
    { <<>>,
      <<Definition(NsA, FileMod)>>,
      <<Definition(NsA, FileMod), Definition(NsB, FileMod2)>>,
      <<Definition(NsA, FileMod), Definition(NsAB, FileMod)>>,
      <<Definition(NsA, FileMod2)>>,
      <<Definition(NsZ, FileTop), Definition(NsAB, FileMod)>> }

ImportChoices == { <<>>, <<NsZ>>, <<<<"^", "B", "$">>, NsZ>> }
ExportChoices == { <<>>, <<NsA>>, <<<<"^", "A", "$">>>> }
IgnoreChoices == { <<>>, <<<<"m", "2", "/", "*">>>>, <<<<"m", "/", "?">>, <<"a">>>> }

\* A box document: text that serde_yaml reads into the two lists of pattern
\* strings, or text it cannot read into them.
Document(wellformed, imports, exports) ==
    [wellformed |-> wellformed, imports |-> imports, exports |-> exports]

\* regex_array::serialize by way of serde_yaml::to_string: the pattern
\* strings of the two lists.
serialize(rb) == Document(TRUE, rb.imports, rb.exports)

\* regex_array::deserialize panics: some pattern does not compile.
parse_panics(doc) ==
    /\ doc.wellformed
    /\ \E p \in Range(doc.imports) \cup Range(doc.exports) : ~regex_compiles(p)

\* ruby_box::parse: a document serde_yaml cannot read is an empty Box.
parse(doc) ==
    IF doc.wellformed THEN RubyBox(doc.imports, doc.exports) ELSE RubyBox(<<>>, <<>>)

\* The ignore globs of the command line all compile (main.rs:103-108).
ignores_compile(args) == \A g \in Range(args) : glob_compiles(g)

\* No command is running.
CommandIdle ==
    /\ ignore_args = <<>>
    /\ disk = [exists |-> FALSE, text |-> Document(TRUE, <<>>, <<>>)]
    /\ docs = <<>>
    /\ vidx = 0
    /\ has_errors = FALSE
    /\ evaluated = <<>>

\* No extraction is running.
PipelineIdle ==
    /\ cpus = 0
    /\ entries = <<>>
    /\ sent = 0
    /\ joined = 0
    /\ wpc = <<>>
    /\ wcur = <<>>
    /\ cpc = "idle"
    /\ results = <<>>
    /\ handed = <<>>

\* No file is being visited.
VisitIdle ==
    /\ ast = <<>>
    /\ walk = <<>>
    /\ visitor = [file |-> <<>>, parents |-> <<>>,
                  ruby_file |-> [definitions |-> <<>>, relations |-> <<>>]]

\* The longest list of References of a corpus.
MaxRels == 2

SeqsUpTo(S, n) == UNION {[1..k -> S] : k \in 0..n}

\* enforce_box is about to be called on some corpus, Box and ignore list.
InitEnforce ==
    /\ pc = "call"
    /\ box_path \in BoxPaths
    /\ \E i \in ImportChoices, e \in ExportChoices : ruby_box = RubyBox(i, e)
    /\ ignores \in IgnoreChoices
    /\ defs \in DefChoices
    /\ rels \in SeqsUpTo(RelPool, MaxRels)
    /\ violations = <<>>
    /\ PipelineIdle
    /\ CommandIdle
    /\ VisitIdle

\* One call of enforce_box.
EnforceBox ==
    /\ pc = "call"
    /\ violations' = enforce_box(box_path, ruby_box, defs, rels, ignores)
    /\ pc' = "returned"
    /\ UNCHANGED <<box_path, ruby_box, ignores, corpusVars, pipeVars, cmdVars>>
    /\ UNCHANGED visitVars

NextEnforce == EnforceBox

SpecEnforce == InitEnforce /\ [][NextEnforce]_vars

-----------------------------------------------------------------------------
(* Properties of enforce_box *)

\* How often Relation r is reported in direction dir.
Reported(dir, r) ==
    Cardinality({i \in 1..Len(violations) : violations[i].dir = dir /\ violations[i].rel = r})

\* How often Relation r occurs in the corpus.
Occurs(r) == Cardinality({i \in 1..Len(rels) : rels[i] = r})

\* Every Relation of the corpus or of the result.
Mentioned == Range(rels) \cup {violations[i].rel : i \in 1..Len(violations)}

InBoundary(file) == starts_with(file, parent(box_path))

\* The three conditions of the export check; r's own file plays no part
\* beyond the ignore globs.
ExportCase(r) ==
    /\ \A g \in Range(ignores) : ~glob_matches(g, r.file)
    /\ \E d \in Range(defs) : InBoundary(d.file) /\ d.namespace = r.namespace
    /\ \A e \in Range(ruby_box.exports) : ~is_match(e, r.namespace)

ExportScenario ==
    /\ box_path = BoxMod
    /\ defs = <<Definition(NsA, FileMod), Definition(NsB, FileMod2)>>
    /\ rels = <<RelBA>>
    /\ ignores = <<>>

\* C1: with a parent directory, a Reference yields one NonExportedReference
\* violation per occurrence exactly when its file matches no ignore glob,
\* its namespace equals the namespace of a Definition inside the boundary
\* and matches no export pattern; no other Reference yields one.  One
\* Definition A inside and one Reference to A from outside: one violation
\* with empty exports, none with export pattern A.
C1_ExportCheck ==
    (pc = "returned" /\ has_parent(box_path)) =>
        /\ \A r \in Mentioned :
               Reported(NonExportedReference, r) = IF ExportCase(r) THEN Occurs(r) ELSE 0
        /\ (ExportScenario /\ ruby_box.exports = <<>>) =>
               Reported(NonExportedReference, RelBA) = 1
        /\ (ExportScenario /\ ruby_box.exports = <<NsA>>) =>
               \A i \in 1..Len(violations) : violations[i].dir # NonExportedReference

\* A Reference from outside the box, twice in the corpus, reported twice.
C1_Witness ==
    /\ pc = "returned"
    /\ box_path = BoxMod
    /\ rels = <<RelBA, RelBA>>
    /\ Reported(NonExportedReference, RelBA) = 2

\* The candidate namespaces of the self-match test: R itself, and the
\* caller's segments with the last k (0..3) dropped and R appended.
DropLast(s, k) == SubSeq(s, 1, IF Len(s) > k THEN Len(s) - k ELSE 0)

SelfCandidates(r) ==
    {r.namespace} \cup
    { join(DropLast(split(r.caller_namespace, NsSep), k) \o <<r.namespace>>, NsSep) : k \in 0..3 }

SelfContained(r) ==
    \E d \in Range(defs) : InBoundary(d.file) /\ d.namespace \in SelfCandidates(r)

\* The conditions of the import check; the ignore globs are not among them.
ImportCase(r) ==
    /\ InBoundary(r.file)
    /\ \A p \in Range(ruby_box.imports) : ~is_match(p, r.namespace)
    /\ ~SelfContained(r)

ImportScenario ==
    /\ box_path = BoxMod
    /\ defs = <<Definition(NsA, FileMod)>>
    /\ rels = <<RelAZ>>

\* C2: with a parent directory, a Reference yields one NonImportedReference
\* violation per occurrence exactly when its file lies inside the boundary,
\* its namespace matches no import pattern and it fails the self-match
\* test; an ignore glob matching its file removes its export-direction
\* violations and never its import-direction violation.  A Reference A -> Z
\* inside the box: one violation with empty imports, none with import Z.
C2_ImportCheck ==
    (pc = "returned" /\ has_parent(box_path)) =>
        /\ \A r \in Mentioned :
               /\ Reported(NonImportedReference, r) = IF ImportCase(r) THEN Occurs(r) ELSE 0
               /\ (\E g \in Range(ignores) : glob_matches(g, r.file)) =>
                      Reported(NonExportedReference, r) = 0
        /\ (ImportScenario /\ ruby_box.imports = <<>>) =>
               Reported(NonImportedReference, RelAZ) = 1
        /\ (ImportScenario /\ ruby_box.imports = <<NsZ>>) =>
               \A i \in 1..Len(violations) : violations[i].dir # NonImportedReference

\* A Reference inside the box whose file an ignore glob matches is still
\* reported as not imported.
C2_Witness ==
    /\ pc = "returned"
    /\ box_path = BoxMod
    /\ \E g \in Range(ignores) : glob_matches(g, RelAZ.file)
    /\ Reported(NonImportedReference, RelAZ) = 1

-----------------------------------------------------------------------------
(* The self-match test on its own: one Reference inside the box at m, no  *)
(* import pattern, and Definitions of every shape around the candidates.  *)

\* The deepest caller namespace, in segments.
MaxDepth == 4
\* The longest Definition namespace, in segments.
MaxNsLen == 3

CallerSegs == {NsA, NsB}
DefSegs == {NsA, NsB, NsC}

NamespacesOf(segs, lo, hi) == {join(s, NsSep) : s \in UNION {[1..k -> segs] : k \in lo..hi}}

Callers == NamespacesOf(CallerSegs, 0, MaxDepth)
DefNamespaces == NamespacesOf(DefSegs, 1, MaxNsLen)
Referenced == {NsC, NsB, Qualified(NsB, NsC)}

InitSelf ==
    /\ pc = "call"
    /\ box_path = BoxMod
    /\ ruby_box = RubyBox(<<>>, <<>>)
    /\ ignores = <<>>
    /\ \E c \in Callers, r \in Referenced : rels = <<Relation(c, r, FileMod, 1)>>
    /\ \/ defs = <<>>
       \/ \E ns \in DefNamespaces, f \in {FileMod, FileMod2} :
              \/ defs = <<Definition(ns, f)>>
              \/ defs = <<Definition(NsA, FileMod), Definition(ns, f)>>
    /\ violations = <<>>
    /\ PipelineIdle
    /\ CommandIdle
    /\ VisitIdle

SpecSelf == InitSelf /\ [][NextEnforce]_vars

NsABC == Qualified(NsAB, NsC)
NsAC == Qualified(NsA, NsC)

\* C3: a Reference is exempt from the import check exactly when some
\* Definition inside the box is named R, or the caller's segments with the
\* last 1, 0, 2 or 3 dropped and R appended (dropping more than there are
\* leaves R); no other Definition exempts it.  Caller A::B, reference C:
\* Definition A::C exempts, Definition A::B::C alone exempts; caller A,
\* reference B, Definitions A and A::B inside the box: no violation.
C3_SelfMatch ==
    pc = "returned" =>
        /\ \A i \in 1..Len(rels) :
               (InBoundary(rels[i].file) /\ ruby_box.imports = <<>>) =>
                   (Reported(NonImportedReference, rels[i]) = 0 <=> SelfContained(rels[i]))
        /\ (rels = <<Relation(NsAB, NsC, FileMod, 1)>>
              /\ \E k \in 1..Len(defs) : defs[k] = Definition(NsAC, FileMod))
               => violations = <<>>
        /\ (rels = <<Relation(NsAB, NsC, FileMod, 1)>> /\ defs = <<Definition(NsABC, FileMod)>>)
               => violations = <<>>
        /\ (rels = <<Relation(NsA, NsB, FileMod, 1)>>
              /\ defs = <<Definition(NsA, FileMod), Definition(NsAB, FileMod)>>)
               => violations = <<>>

\* A caller four segments deep is exempt through the candidate that drops
\* three of them.
C3_Witness ==
    /\ pc = "returned"
    /\ rels = <<Relation(Qualified(NsAB, NsAB), NsC, FileMod, 1)>>
    /\ defs = <<Definition(NsAC, FileMod)>>
    /\ violations = <<>>

-----------------------------------------------------------------------------
(* The reach of the self-match test: callers four and five segments deep, *)
(* one Reference to C inside the box at m, at most one Definition.        *)

\* Callers from the four segments that exhaust the candidates to one more
\* than the deepest caller of the self-match runs.
DeepCallers == NamespacesOf(CallerSegs, 4, MaxDepth + 1)
CapDefNamespaces == {NsC} \cup {Qualified(s, NsC) : s \in CallerSegs}
CapImportChoices == {<<>>, <<NsZ>>, <<NsC>>}

InitCap ==
    /\ pc = "call"
    /\ box_path = BoxMod
    /\ \E i \in CapImportChoices : ruby_box = RubyBox(i, <<>>)
    /\ ignores = <<>>
    /\ \E c \in DeepCallers : rels = <<Relation(c, NsC, FileMod, 1)>>
    /\ \/ defs = <<>>
       \/ \E ns \in CapDefNamespaces, f \in {FileMod, FileMod2} : defs = <<Definition(ns, f)>>
    /\ violations = <<>>
    /\ PipelineIdle
    /\ CommandIdle
    /\ VisitIdle

SpecCap == InitCap /\ [][NextEnforce]_vars

Depth(r) == Len(split(r.caller_namespace, NsSep))
ImportMatches(r) == \E k \in 1..Len(ruby_box.imports) : is_match(ruby_box.imports[k], r.namespace)
\* The caller's first k segments followed by R.
Enclosing(r, k) == join(SubSeq(split(r.caller_namespace, NsSep), 1, k) \o <<r.namespace>>, NsSep)

\* C11 as stated: a Reference to C inside the box from a caller four
\* segments deep, with top-level C the only Definition and no matching
\* import pattern, is reported as a NonImportedReference.
C11_AsStated ==
    pc = "returned" =>
        \A i \in 1..Len(rels) :
            (/\ InBoundary(rels[i].file)
             /\ Depth(rels[i]) = 4
             /\ rels[i].namespace = NsC
             /\ Len(defs) = 1 /\ defs[1].namespace = NsC
             /\ ~ImportMatches(rels[i]))
                => Reported(NonImportedReference, rels[i]) = 1

\* C11 as amended: with caller depth 4, reference C, no matching import
\* pattern and top-level C the only Definition, the Reference is exempt
\* when that Definition lies inside the box (its namespace equals the
\* referenced token) and reported once when it lies outside; the
\* caller-derived candidates drop at most 3 segments, so a Definition named
\* by the caller's first k segments and C, with 4 or more segments of the
\* caller above it, never exempts.
C11_SelfMatchCap ==
    pc = "returned" =>
        \A i \in 1..Len(rels) :
            (InBoundary(rels[i].file) /\ rels[i].namespace = NsC /\ ~ImportMatches(rels[i])) =>
                /\ (Depth(rels[i]) = 4 /\ Len(defs) = 1 /\ defs[1].namespace = NsC) =>
                       Reported(NonImportedReference, rels[i])
                           = (IF InBoundary(defs[1].file) THEN 0 ELSE 1)
                /\ (\A j \in 1..Len(defs) :
                        \E k \in 1..Depth(rels[i]) :
                            /\ Depth(rels[i]) - k >= 4
                            /\ defs[j].namespace = Enclosing(rels[i], k))
                       => Reported(NonImportedReference, rels[i]) = 1

\* Caller A::B::A::B refers to C, top-level C is defined inside the box,
\* and no NonImportedReference is reported.
C11_Witness ==
    /\ pc = "returned"
    /\ rels = <<Relation(Qualified(NsAB, NsAB), NsC, FileMod, 1)>>
    /\ defs = <<Definition(NsC, FileMod)>>
    /\ ruby_box.imports = <<>>
    /\ Reported(NonImportedReference, rels[1]) = 0

\* Caller A::B::A::B::A refers to C, only A::C is defined inside the box
\* (four segments above the caller), and the Reference is reported.
C11_CapReached ==
    /\ pc = "returned"
    /\ rels = <<Relation(Qualified(Qualified(NsAB, NsAB), NsA), NsC, FileMod, 1)>>
    /\ defs = <<Definition(NsAC, FileMod)>>
    /\ Reported(NonImportedReference, rels[1]) = 1

-----------------------------------------------------------------------------
(* The extraction pipeline: parse_ruby (main.rs) and worker (parser/mod.rs) *)

\* The largest pool size.
MaxCpus == 2
\* The largest number of entries glob("**/*.rb") yields.
MaxFiles == 2

Workers == 1..MaxCpus

\* What glob("**/*.rb") can find, in the order it yields them.
SrcFiles == <<FileTop, FileMod, FileMod2, <<"m", "2", "/", "b">>, <<"z">>>>

\* What becomes of an entry: "ok" is read, parsed and walked; "glob_error" is
\* an Err entry of the glob iterator; "io_error" fails File::open or
\* read_to_end; "no_ast" is a file for which the front-end yields no syntax
\* tree; "not_const" has a module or class whose name node is no Const.
Kinds == {"ok", "glob_error", "io_error", "no_ast", "not_const"}

EntryLists ==
    UNION { { [i \in 1..n |-> [path |-> SrcFiles[i], kind |-> k[i]]] : k \in [1..n -> Kinds] }
            : n \in 0..MaxFiles }

RubyFile(definitions, relations) == [definitions |-> definitions, relations |-> relations]

\* ruby_file on a file that is read: no syntax tree gives an empty RubyFile;
\* otherwise the visitor's Definitions and Relations, all carrying the path.
ruby_file(e) ==
    IF e.kind = "no_ast" THEN RubyFile(<<>>, <<>>)
    ELSE RubyFile(<<Definition(NsA, e.path), Definition(NsAB, e.path)>>,
                  <<Relation(NsAB, NsZ, e.path, 1)>>)

\* A plausible slip: a file that cannot be read is passed over, not fatal.
worker_fails_skips_io(e) == e.kind = "not_const"

\* Whether the worker's loop body fails on the entry (lines 207-211): the
\* `?` returns the Err and the thread's unwrap panics, or the visitor's
\* own unwrap panics.
worker_fails(e) == e.kind \in {"io_error", "not_const"}

\* A plausible slip: the collector keeps only the result it received last.
collect_last(rs, rf) == <<rf>>

\* The collector's loop body.
collect(rs, rf) == Append(rs, rf)

RECURSIVE merge_definitions(_)
merge_definitions(rs) ==
    IF rs = <<>> THEN <<>> ELSE Head(rs).definitions \o merge_definitions(Tail(rs))

RECURSIVE merge_relations(_)
merge_relations(rs) ==
    IF rs = <<>> THEN <<>> ELSE Head(rs).relations \o merge_relations(Tail(rs))

\* The process has not been aborted by a panic or an Err of the main thread.
Alive == pc # "aborted"

\* work_tx is dropped at line 49.
work_tx_dropped == pc \in {"join", "recv_results", "join_collector", "returned"}

\* A plausible slip: collect_tx dropped only after the results are received.
collect_tx_dropped_late == pc \in {"join_collector", "returned"}

\* collect_tx is dropped at line 55.
collect_tx_dropped == pc \in {"recv_results", "join_collector", "returned"}

WorkerEnded(w) == wpc[w] \in {"exited", "panicked"}

\* parse_ruby has spawned the workers and the collector.
InitPipeline ==
    /\ pc = "produce"
    /\ cpus \in 1..MaxCpus
    /\ entries \in EntryLists
    /\ sent = 0
    /\ joined = 0
    /\ wpc = [w \in 1..cpus |-> "recv"]
    /\ wcur = [w \in 1..cpus |-> 0]
    /\ cpc = "collecting"
    /\ results = <<>>
    /\ handed = <<>>
    /\ defs = <<>>
    /\ rels = <<>>
    /\ box_path = <<>>
    /\ ruby_box = RubyBox(<<>>, <<>>)
    /\ ignores = <<>>
    /\ violations = <<>>
    /\ CommandIdle
    /\ VisitIdle

\* main.rs:46 meets parser/mod.rs:206: a path passes through the
\* zero-buffer work channel when the producer sends and a worker receives.
MainSend(w) ==
    /\ pc = "produce"
    /\ sent < Len(entries)
    /\ entries[sent + 1].kind # "glob_error"
    /\ w \in 1..cpus
    /\ wpc[w] = "recv"
    /\ sent' = sent + 1
    /\ wpc' = [wpc EXCEPT ![w] = "work"]
    /\ wcur' = [wcur EXCEPT ![w] = sent + 1]
    /\ UNCHANGED <<pc, enforceVars, cmdVars, corpusVars, cpus, entries, joined, cpc, results, handed>>
    /\ UNCHANGED visitVars

\* main.rs:45: `entry?` returns the glob's Err; the command's unwrap panics.
MainGlobError ==
    /\ pc = "produce"
    /\ sent < Len(entries)
    /\ entries[sent + 1].kind = "glob_error"
    /\ pc' = "aborted"
    /\ UNCHANGED <<enforceVars, cmdVars, corpusVars, pipeVars>>
    /\ UNCHANGED visitVars

\* main.rs:49: drop(work_tx).
MainCloseWork ==
    /\ pc = "produce"
    /\ sent = Len(entries)
    /\ pc' = "join"
    /\ UNCHANGED <<enforceVars, cmdVars, corpusVars, pipeVars>>
    /\ UNCHANGED visitVars

\* main.rs:51-53: join the next child, which returned.
MainJoinWorker ==
    /\ pc = "join"
    /\ joined < cpus
    /\ wpc[joined + 1] = "exited"
    /\ joined' = joined + 1
    /\ UNCHANGED <<pc, enforceVars, cmdVars, corpusVars, cpus, entries, sent, wpc, wcur, cpc, results, handed>>
    /\ UNCHANGED visitVars

\* main.rs:52: join the next child, which panicked: expect panics.
MainJoinPanicked ==
    /\ pc = "join"
    /\ joined < cpus
    /\ wpc[joined + 1] = "panicked"
    /\ pc' = "aborted"
    /\ UNCHANGED <<enforceVars, cmdVars, corpusVars, pipeVars>>
    /\ UNCHANGED visitVars

\* main.rs:55: drop(collect_tx).
MainDropCollectTx ==
    /\ pc = "join"
    /\ joined = cpus
    /\ pc' = "recv_results"
    /\ UNCHANGED <<enforceVars, cmdVars, corpusVars, pipeVars>>
    /\ UNCHANGED visitVars

\* parser/mod.rs:206: the work channel is disconnected; the worker returns Ok.
WorkerExit(w) ==
    /\ Alive
    /\ w \in 1..cpus
    /\ wpc[w] = "recv"
    /\ work_tx_dropped
    /\ wpc' = [wpc EXCEPT ![w] = "exited"]
    /\ UNCHANGED <<pc, enforceVars, cmdVars, corpusVars, cpus, entries, sent, joined, wcur, cpc, results, handed>>
    /\ UNCHANGED visitVars

\* parser/mod.rs:207-211: read the file and extract from it.
WorkerProcess(w) ==
    /\ Alive
    /\ w \in 1..cpus
    /\ wpc[w] = "work"
    /\ wpc' = [wpc EXCEPT ![w] = IF worker_fails(entries[wcur[w]]) THEN "panicked" ELSE "send"]
    /\ UNCHANGED <<pc, enforceVars, cmdVars, corpusVars, cpus, entries, sent, joined, wcur, cpc, results, handed>>
    /\ UNCHANGED visitVars

\* parser/mod.rs:212 meets main.rs:37-38: a RubyFile passes through the
\* zero-buffer collect channel and the collector pushes it.
WorkerSend(w) ==
    /\ Alive
    /\ w \in 1..cpus
    /\ wpc[w] = "send"
    /\ cpc = "collecting"
    /\ results' = collect(results, ruby_file(entries[wcur[w]]))
    /\ wpc' = [wpc EXCEPT ![w] = "recv"]
    /\ UNCHANGED <<pc, enforceVars, cmdVars, corpusVars, cpus, entries, sent, joined, wcur, cpc, handed>>
    /\ UNCHANGED visitVars

\* main.rs:37: every sender of the collect channel is gone; the loop ends.
CollectorDrained ==
    /\ Alive
    /\ cpc = "collecting"
    /\ collect_tx_dropped
    /\ \A w \in 1..cpus : WorkerEnded(w)
    /\ cpc' = "sending"
    /\ UNCHANGED <<pc, enforceVars, cmdVars, corpusVars, cpus, entries, sent, joined, wpc, wcur, results, handed>>
    /\ UNCHANGED visitVars

\* main.rs:40 meets main.rs:57: the result list passes through the
\* zero-buffer results channel.
HandOff ==
    /\ pc = "recv_results"
    /\ cpc = "sending"
    /\ handed' = results
    /\ cpc' = "sent"
    /\ pc' = "join_collector"
    /\ UNCHANGED <<enforceVars, cmdVars, corpusVars, cpus, entries, sent, joined, wpc, wcur, results>>
    /\ UNCHANGED visitVars

\* main.rs:41-42: the collector drops results_tx and returns.
CollectorExit ==
    /\ Alive
    /\ cpc = "sent"
    /\ cpc' = "done"
    /\ UNCHANGED <<pc, enforceVars, cmdVars, corpusVars, cpus, entries, sent, joined, wpc, wcur, results, handed>>
    /\ UNCHANGED visitVars

\* main.rs:58-72: join the collector, flatten the results, return Ok.
MainReturn ==
    /\ pc = "join_collector"
    /\ cpc = "done"
    /\ defs' = merge_definitions(handed)
    /\ rels' = merge_relations(handed)
    /\ pc' = "returned"
    /\ UNCHANGED <<enforceVars, cmdVars, pipeVars>>
    /\ UNCHANGED visitVars

MainStep ==
    \/ MainGlobError
    \/ MainCloseWork
    \/ MainJoinWorker
    \/ MainJoinPanicked
    \/ MainDropCollectTx
    \/ MainReturn

WorkerStep(w) ==
    \/ MainSend(w)
    \/ WorkerExit(w)
    \/ WorkerProcess(w)
    \/ WorkerSend(w)

CollectorStep ==
    \/ CollectorDrained
    \/ HandOff
    \/ CollectorExit

NextPipeline ==
    \/ MainStep
    \/ \E w \in Workers : WorkerStep(w)
    \/ CollectorStep

SpecPipeline == InitPipeline /\ [][NextPipeline]_vars

\* Every thread that can take a step eventually takes one: the threads are
\* operating-system threads.
FairPipeline ==
    /\ InitPipeline
    /\ [][NextPipeline]_vars
    /\ WF_vars(MainStep)
    /\ \A w \in Workers : WF_vars(WorkerStep(w))
    /\ WF_vars(CollectorStep)

-----------------------------------------------------------------------------
(* Properties of the pipeline *)

Count(s, x) == Cardinality({i \in 1..Len(s) : s[i] = x})

\* How often x occurs in the per-file outputs of the first n entries.
RECURSIVE ExtractedDefs(_, _)
ExtractedDefs(x, n) ==
    IF n = 0 THEN 0
    ELSE Count(ruby_file(entries[n]).definitions, x) + ExtractedDefs(x, n - 1)

RECURSIVE ExtractedRels(_, _)
ExtractedRels(x, n) ==
    IF n = 0 THEN 0
    ELSE Count(ruby_file(entries[n]).relations, x) + ExtractedRels(x, n - 1)

AllExtractedDefs == UNION {Range(ruby_file(entries[i]).definitions) : i \in 1..Len(entries)}
AllExtractedRels == UNION {Range(ruby_file(entries[i]).relations) : i \in 1..Len(entries)}

\* C4: the corpus parse_ruby returns is the multiset union of the per-file
\* outputs of exactly the discovered files, each file contributing once,
\* whatever the pool size and the interleaving.
C4_CorpusIsUnion ==
    pc = "returned" =>
        /\ Len(handed) = Len(entries)
        /\ \A i \in 1..Len(entries) :
               Count(handed, ruby_file(entries[i]))
                   = Cardinality({j \in 1..Len(entries) : ruby_file(entries[j]) = ruby_file(entries[i])})
        /\ \A x \in AllExtractedDefs \cup Range(defs) :
               Count(defs, x) = ExtractedDefs(x, Len(entries))
        /\ \A x \in AllExtractedRels \cup Range(rels) :
               Count(rels, x) = ExtractedRels(x, Len(entries))

\* Two workers, two files, and the results collected in the order opposite
\* to discovery.
C4_Witness ==
    /\ pc = "returned"
    /\ cpus = 2
    /\ Len(entries) = 2
    /\ entries[1].kind = "ok" /\ entries[2].kind = "ok"
    /\ handed = <<ruby_file(entries[2]), ruby_file(entries[1])>>
    /\ Len(defs) = 4

\* No entry is fatal to the run.
NoFileFails == \A i \in 1..Len(entries) : entries[i].kind \in {"ok", "no_ast"}

Finished ==
    /\ pc = "returned"
    /\ \A w \in 1..cpus : wpc[w] = "exited"
    /\ cpc = "done"

\* C5: when no file fails, for every number of files (zero included) and
\* every pool size >= 1, parse_ruby eventually returns with every worker
\* exited and the collector done; a worker exits only after the work channel
\* is closed, and the collector hands over only after every worker exited
\* and every result is drained.
C5_Termination ==
    /\ NoFileFails ~> Finished
    /\ [](NoFileFails =>
            /\ \A w \in 1..cpus : wpc[w] = "exited" => work_tx_dropped
            /\ cpc # "collecting" =>
                   /\ \A w \in 1..cpus : wpc[w] = "exited"
                   /\ Len(results) = Len(entries))

C5_Witness ==
    /\ NoFileFails
    /\ Finished
    /\ cpus = 2
    /\ Len(entries) = 2

\* The producer is blocked in send and no worker is left to receive.
ProducerStuck ==
    /\ pc = "produce"
    /\ sent < Len(entries)
    /\ entries[sent + 1].kind # "glob_error"
    /\ \A w \in 1..cpus : WorkerEnded(w)

\* C6: once a worker has hit a fatal error the run aborts (it never comes
\* to a stop without having aborted), and the producer is never blocked
\* sending a path with no worker left to receive it.
C6_AbortsNeverHangs ==
    /\ ~ProducerStuck
    /\ (\E w \in 1..cpus : wpc[w] = "panicked") => (pc = "aborted" \/ ENABLED NextPipeline)

\* C7 as stated: a corpus is returned only when every discovered file was
\* read, turned into a syntax tree and walked without error.
C7_AsStated ==
    pc = "returned" => \A i \in 1..Len(entries) : entries[i].kind = "ok"

\* C7, amended: a corpus is returned only when no discovered file failed
\* with an I/O error or a name node that is no constant (and discovery
\* itself did not fail); every file then has its result in the corpus, and
\* a file without a syntax tree contributes an empty result.
C7_NoPartialCorpus ==
    pc = "returned" =>
        /\ \A i \in 1..Len(entries) : entries[i].kind \in {"ok", "no_ast"}
        /\ Len(handed) = Len(entries)
        /\ \A i \in 1..Len(entries) :
               /\ entries[i].kind = "ok" => Count(handed, ruby_file(entries[i])) = 1
               /\ entries[i].kind = "no_ast" => Count(handed, RubyFile(<<>>, <<>>)) >= 1
        /\ Count(handed, RubyFile(<<>>, <<>>))
               = Cardinality({i \in 1..Len(entries) : entries[i].kind = "no_ast"})

\* A corpus returned although one of two files has no syntax tree.
C7_Witness ==
    /\ pc = "returned"
    /\ Len(entries) = 2
    /\ entries[1].kind = "no_ast"
    /\ entries[2].kind = "ok"
    /\ Len(defs) = 2

-----------------------------------------------------------------------------
(* command_verify: main.rs:202-232 *)

\* The largest number of box documents glob("**/box.yml") yields.
MaxBoxes == 2

BoxMod2 == <<"m", "2", "/", "b">>
BoxFiles == <<BoxRoot, BoxMod, BoxMod2, <<"m", "2", "/", "s", "/", "b">>, <<"z", "/", "b">>>>

BadRegex == <<"(">>
BadGlob == <<"[">>

\* What a box document can be: unreadable (File::open, read_to_end or
\* from_utf8 fails), or readable with some text.
DocKinds ==
    { [readable |-> FALSE, text |-> Document(TRUE, <<>>, <<>>)],
      [readable |-> TRUE, text |-> Document(TRUE, <<>>, <<>>)],
      [readable |-> TRUE, text |-> Document(TRUE, <<NsZ, NsB>>, <<NsA>>)],
      [readable |-> TRUE, text |-> Document(FALSE, <<>>, <<>>)],
      [readable |-> TRUE, text |-> Document(TRUE, <<BadRegex>>, <<>>)] }

DocLists ==
    UNION { { [i \in 1..n |-> [path |-> BoxFiles[i], readable |-> k[i].readable, text |-> k[i].text]]
              : k \in [1..n -> DocKinds] }
            : n \in 0..MaxBoxes }

IgnoreArgChoices == { <<>>, <<<<"m", "2", "/", "*">>>>, <<BadGlob>> }

\* The corpora parse_ruby may have returned.
CorpusChoices ==
    { [defs |-> <<>>, rels |-> <<>>],
      [defs |-> <<Definition(NsA, FileMod), Definition(NsB, FileMod2)>>,
       rels |-> <<RelAZ, RelBA>>],
      [defs |-> <<Definition(NsA, FileMod), Definition(NsAB, FileMod)>>,
       rels |-> <<RelAB, RelBAB>>],
      [defs |-> <<Definition(NsA, FileMod)>>, rels |-> <<RelTopA>>] }

\* A plausible slip: the flag follows the box verified last.
next_has_errors_last(flag, errors) == Len(errors) > 0

\* main.rs:223-225
next_has_errors(flag, errors) == IF Len(errors) > 0 /\ ~flag THEN TRUE ELSE flag

\* command_verify has its corpus and enters the loop over the documents.
InitVerify ==
    /\ pc = "verify_loop"
    /\ \E c \in CorpusChoices : defs = c.defs /\ rels = c.rels
    /\ ignore_args \in IgnoreArgChoices
    /\ docs \in DocLists
    /\ vidx = 0
    /\ has_errors = FALSE
    /\ evaluated = <<>>
    /\ disk = [exists |-> FALSE, text |-> Document(TRUE, <<>>, <<>>)]
    /\ box_path = <<>>
    /\ ruby_box = RubyBox(<<>>, <<>>)
    /\ ignores = <<>>
    /\ violations = <<>>
    /\ PipelineIdle
    /\ VisitIdle

\* main.rs:208-211: the document cannot be read; `?` returns the Err.
VerifyUnreadable ==
    /\ pc = "verify_loop"
    /\ vidx < Len(docs)
    /\ ~docs[vidx + 1].readable
    /\ pc' = "done_err"
    /\ UNCHANGED <<enforceVars, corpusVars, pipeVars, cmdVars>>
    /\ UNCHANGED visitVars

\* main.rs:211, ruby_box.rs:25: a pattern of the document does not compile;
\* the unwrap panics.
VerifyBadPattern ==
    /\ pc = "verify_loop"
    /\ vidx < Len(docs)
    /\ docs[vidx + 1].readable
    /\ parse_panics(docs[vidx + 1].text)
    /\ pc' = "aborted"
    /\ UNCHANGED <<enforceVars, corpusVars, pipeVars, cmdVars>>
    /\ UNCHANGED visitVars

\* main.rs:212-218: an ignore glob does not compile; `ignores?` returns the
\* Err before enforce_box is called.
VerifyBadIgnore ==
    /\ pc = "verify_loop"
    /\ vidx < Len(docs)
    /\ docs[vidx + 1].readable
    /\ ~parse_panics(docs[vidx + 1].text)
    /\ ~ignores_compile(ignore_args)
    /\ pc' = "done_err"
    /\ UNCHANGED <<enforceVars, corpusVars, pipeVars, cmdVars>>
    /\ UNCHANGED visitVars

\* main.rs:207-225: one box document read, parsed, enforced and reported.
VerifyBox ==
    /\ pc = "verify_loop"
    /\ vidx < Len(docs)
    /\ docs[vidx + 1].readable
    /\ ~parse_panics(docs[vidx + 1].text)
    /\ ignores_compile(ignore_args)
    /\ LET path   == docs[vidx + 1].path
           rb     == parse(docs[vidx + 1].text)
           errors == enforce_box(path, rb, defs, rels, ignore_args)
       IN  /\ box_path' = path
           /\ ruby_box' = rb
           /\ ignores' = ignore_args
           /\ violations' = errors
           /\ evaluated' = Append(evaluated, [path |-> path, errors |-> errors])
           /\ has_errors' = next_has_errors(has_errors, errors)
    /\ vidx' = vidx + 1
    /\ UNCHANGED <<pc, corpusVars, pipeVars, ignore_args, disk, docs>>
    /\ UNCHANGED visitVars

\* main.rs:227-231
VerifyEnd ==
    /\ pc = "verify_loop"
    /\ vidx = Len(docs)
    /\ pc' = IF has_errors THEN "done_err" ELSE "done_ok"
    /\ UNCHANGED <<enforceVars, corpusVars, pipeVars, cmdVars>>
    /\ UNCHANGED visitVars

NextVerify ==
    \/ VerifyUnreadable
    \/ VerifyBadPattern
    \/ VerifyBadIgnore
    \/ VerifyBox
    \/ VerifyEnd

SpecVerify == InitVerify /\ [][NextVerify]_vars

VerifyEnded == pc \in {"done_ok", "done_err", "aborted"}
AllReadable == \A i \in 1..Len(docs) : docs[i].readable
DocsCompile == \A i \in 1..Len(docs) : ~parse_panics(docs[i].text)
AllCompile == ignores_compile(ignore_args) /\ DocsCompile

\* What verify owes at its end: every document enforced, in order, with the
\* result enforce_box gives for it, and failure exactly when some result is
\* not empty.
Aggregated ==
    /\ Len(evaluated) = Len(docs)
    /\ \A i \in 1..Len(docs) :
           /\ evaluated[i].path = docs[i].path
           /\ evaluated[i].errors
                  = enforce_box(docs[i].path, parse(docs[i].text), defs, rels, ignore_args)
    /\ pc # "done_ok" <=> \E i \in 1..Len(evaluated) : evaluated[i].errors # <<>>

\* C8 as stated: when every box document can be read (taken at its widest:
\* read and parsed, its patterns compiled), verify enforces every document
\* and fails exactly when some box has a violation; the flag, once set, is
\* never cleared.
C8_AsStated ==
    /\ [](VerifyEnded /\ AllReadable /\ DocsCompile => Aggregated)
    /\ [][has_errors => has_errors']_vars

\* C8, amended: when every box document can be read and parsed and every
\* ignore glob of the command line compiles, verify enforces every
\* document, also after one with violations, and fails exactly when some
\* box has a violation; the flag, once set, is never cleared.
C8_VerifyAggregation ==
    /\ [](VerifyEnded /\ AllReadable /\ AllCompile => Aggregated /\ pc # "aborted")
    /\ [][has_errors => has_errors']_vars

\* Two boxes, the first with violations and the second without, both
\* enforced, and the run fails.
C8_Witness ==
    /\ pc = "done_err"
    /\ Len(docs) = 2
    /\ Len(evaluated) = 2
    /\ evaluated[1].errors # <<>>
    /\ evaluated[2].errors = <<>>

\* C12, for command_verify: a run that a pattern of a box document aborts
\* has not run enforce_box for any box, and a run given an ignore glob that
\* does not compile has run enforce_box for no box and does not end
\* successfully.
C12_FatalBeforeEnforcement ==
    /\ pc = "aborted" => evaluated = <<>>
    /\ (VerifyEnded /\ ~ignores_compile(ignore_args)) =>
           (pc # "done_ok" /\ evaluated = <<>>)

-----------------------------------------------------------------------------
(* command_init, the Box generator: main.rs:91-146 *)

\* The byte of a character: String's Ord compares bytes.
Byte(c) ==
    CASE c = ":" -> 58
      [] c = "A" -> 65
      [] c = "B" -> 66
      [] c = "C" -> 67
      [] c = "Z" -> 90

\* a < b for two Strings.
RECURSIVE StrLess(_, _)
StrLess(a, b) ==
    IF b = <<>> THEN FALSE
    ELSE IF a = <<>> THEN TRUE
    ELSE IF Head(a) = Head(b) THEN StrLess(Tail(a), Tail(b))
    ELSE Byte(Head(a)) < Byte(Head(b))

\* HashSet::drain().collect() followed by Vec::sort().
RECURSIVE sort(_)
sort(set) ==
    IF set = {} THEN <<>>
    ELSE LET least == CHOOSE x \in set : \A y \in set \ {x} : StrLess(x, y)
         IN  <<least>> \o sort(set \ {least})

\* A plausible slip: the two directions confused.
harvest_other(errors, dir) ==
    {errors[i].rel.namespace : i \in {k \in 1..Len(errors) : errors[k].dir # dir}}

\* main.rs:113-122: the referenced namespaces of the violations of one
\* direction, in a HashSet.
harvest(errors, dir) ==
    {errors[i].rel.namespace : i \in {k \in 1..Len(errors) : errors[k].dir = dir}}

\* main.rs:124-141: the derived Box.
derive_box(errors) ==
    RubyBox(sort(harvest(errors, NonImportedReference)),
            sort(harvest(errors, NonExportedReference)))

OldDocument == Document(TRUE, <<NsZ>>, <<>>)
Absent == [exists |-> FALSE, text |-> Document(TRUE, <<>>, <<>>)]

\* command_init has its corpus and its path (main.rs:92-94).
InitInit ==
    /\ pc = "init_start"
    /\ defs \in DefChoices
    /\ rels \in SeqsUpTo(RelPool, MaxRels)
    /\ box_path \in BoxPaths
    /\ ignore_args \in IgnoreArgChoices
    /\ disk \in {Absent} \cup
                (IF has_parent(box_path) THEN {[exists |-> TRUE, text |-> OldDocument]} ELSE {})
    /\ ruby_box = RubyBox(<<>>, <<>>)
    /\ ignores = <<>>
    /\ violations = <<>>
    /\ docs = <<>>
    /\ vidx = 0
    /\ has_errors = FALSE
    /\ evaluated = <<>>
    /\ PipelineIdle
    /\ VisitIdle

\* main.rs:95-97: an existing document is removed.
InitRemove ==
    /\ pc = "init_start"
    /\ disk' = IF disk.exists THEN Absent ELSE disk
    /\ pc' = "init_enforce"
    /\ UNCHANGED <<enforceVars, corpusVars, pipeVars, ignore_args, docs, vidx, has_errors, evaluated>>
    /\ UNCHANGED visitVars

\* main.rs:103-109: an ignore glob does not compile; `ignores?` returns the
\* Err before enforce_box is called.
InitBadIgnore ==
    /\ pc = "init_enforce"
    /\ ~ignores_compile(ignore_args)
    /\ pc' = "done_err"
    /\ UNCHANGED <<enforceVars, corpusVars, pipeVars, cmdVars>>
    /\ UNCHANGED visitVars

\* main.rs:99-141: the empty Box enforced, the violations harvested, sorted
\* and compiled (Regex::new(..).unwrap() panics on a namespace that is no
\* regex).
InitDerive ==
    /\ pc = "init_enforce"
    /\ ignores_compile(ignore_args)
    /\ LET errors == enforce_box(box_path, RubyBox(<<>>, <<>>), defs, rels, ignore_args)
           rb     == derive_box(errors)
       IN  /\ violations' = errors
           /\ ignores' = ignore_args
           /\ ruby_box' = rb
           /\ pc' = IF \A p \in Range(rb.imports) \cup Range(rb.exports) : regex_compiles(p)
                    THEN "init_write" ELSE "aborted"
    /\ UNCHANGED <<box_path, corpusVars, pipeVars, cmdVars>>
    /\ UNCHANGED visitVars

\* main.rs:143-145: the document created and written.
InitWrite ==
    /\ pc = "init_write"
    /\ has_parent(box_path)
    /\ disk' = [exists |-> TRUE, text |-> serialize(ruby_box)]
    /\ pc' = "done_ok"
    /\ UNCHANGED <<enforceVars, corpusVars, pipeVars, ignore_args, docs, vidx, has_errors, evaluated>>
    /\ UNCHANGED visitVars

\* main.rs:143: File::create fails on the empty path.
InitCreateFails ==
    /\ pc = "init_write"
    /\ ~has_parent(box_path)
    /\ pc' = "done_err"
    /\ UNCHANGED <<enforceVars, corpusVars, pipeVars, cmdVars>>
    /\ UNCHANGED visitVars

NextInit ==
    \/ InitRemove
    \/ InitBadIgnore
    \/ InitDerive
    \/ InitWrite
    \/ InitCreateFails

SpecInit == InitInit /\ [][NextInit]_vars

\* command_init runs to its end: it is one sequential function.
FairInit == SpecInit /\ WF_vars(NextInit)

InitEnded == pc \in {"done_ok", "done_err", "aborted"}

\* C14: a run of command_init on a box document that already exists ends
\* with the document still there: replaced by the freshly derived Box when
\* the run succeeds, unchanged when it fails; never removed and not
\* rewritten.
C14_NoHalfDoneState ==
    (pc = "init_start" /\ disk.exists) =>
        [](InitEnded =>
              /\ disk.exists
              /\ pc = "done_ok" =>
                     disk.text = serialize(derive_box(
                         enforce_box(box_path, RubyBox(<<>>, <<>>), defs, rels, ignore_args)))
              /\ pc # "done_ok" => disk.text = OldDocument)

\* The violations of the written document against the same corpus, box
\* location and ignore list.
Reenforced(doc) == enforce_box(box_path, parse(doc), defs, rels, ignore_args)

NamespacesReported(dir) ==
    {violations[i].rel.namespace : i \in {k \in 1..Len(violations) : violations[k].dir = dir}}

\* C9: the Box the generator writes (imports: the distinct namespaces of
\* the NonImportedReference violations of the empty Box, exports: those of
\* the NonExportedReference violations) gives no violation when enforced
\* on the same corpus, box location and ignore list.
C9_GeneratorSound ==
    pc = "done_ok" =>
        /\ disk.exists
        /\ Range(disk.text.imports) = NamespacesReported(NonImportedReference)
        /\ Range(disk.text.exports) = NamespacesReported(NonExportedReference)
        /\ Reenforced(disk.text) = <<>>

\* A run whose empty Box has violations of both directions.
C9_Witness ==
    /\ pc = "done_ok"
    /\ disk.text.imports # <<>>
    /\ disk.text.exports # <<>>
    /\ Len(violations) >= 2
    /\ Reenforced(disk.text) = <<>>

Without(s, i) == SubSeq(s, 1, i - 1) \o SubSeq(s, i + 1, Len(s))

CorpusNamespaces ==
    {defs[i].namespace : i \in 1..Len(defs)} \cup {rels[i].namespace : i \in 1..Len(rels)}

Sorted(s) == \A i \in 1..(Len(s) - 1) : StrLess(s[i], s[i + 1])

\* C10: the written Box is minimal: each pattern matches only the namespace
\* it was built from, each list is sorted without duplicate, and removing
\* any one pattern brings back at least one violation.
C10_GeneratorMinimal ==
    pc = "done_ok" =>
        LET imports == disk.text.imports
            exports == disk.text.exports
        IN  /\ \A p \in Range(imports) \cup Range(exports) :
                   \A ns \in CorpusNamespaces : is_match(p, ns) => ns = p
            /\ Sorted(imports) /\ Sorted(exports)
            /\ \A i \in 1..Len(imports) :
                   Reenforced(Document(TRUE, Without(imports, i), exports)) # <<>>
            /\ \A i \in 1..Len(exports) :
                   Reenforced(Document(TRUE, imports, Without(exports, i))) # <<>>

-----------------------------------------------------------------------------
(* The extraction visitor: ExtractConsts and ruby_file, parser/mod.rs.     *)
(* The recursion of the walk is the list of pending calls in walk.         *)

\* The deepest nesting of modules and classes in one file.
MaxNest == 3

NsD == <<"D">>
NsObject == <<"O", "b", "j", "e", "c", "t">>
\* The built-in names that on_const passes over.
RUBY == {NsObject}

None == <<>>
Some(x) == <<x>>

\* The node kinds of the syntax tree the visitor tells apart; Begin stands
\* for every kind left to the default, which visits the children in order.
Const(scope, name) == [kind |-> "Const", scope |-> scope, name |-> name]
SelfNode == [kind |-> "Self_"]
Module(name, body) == [kind |-> "Module", name |-> name, body |-> body]
Class(name, superclass, body) ==
    [kind |-> "Class", name |-> name, superclass |-> superclass, body |-> body]
Casgn(scope, name) == [kind |-> "Casgn", scope |-> scope, name |-> name]
Begin(statements) == [kind |-> "Begin", statements |-> statements]

reverse(s) == [i \in 1..Len(s) |-> s[Len(s) + 1 - i]]

\* extract_name: the name of a Const node, its own last segment; an Err
\* for any other node.
extract_name(name) ==
    IF name.kind = "Const" THEN [ok |-> TRUE, name |-> name.name]
    ELSE [ok |-> FALSE, name |-> <<>>]

\* namespace, where extract_name succeeds.
namespace(name, parents) == join(Append(parents, extract_name(name).name), NsSep)

\* The loop of on_casgn and on_const over the scope chain: the names of the
\* Const nodes from the innermost qualifier outwards; it stops at a
\* qualifier that is no Const.
RECURSIVE scope_names(_)
scope_names(scope) ==
    IF scope = None THEN <<>>
    ELSE IF scope[1].kind = "Const"
         THEN <<scope[1].name>> \o scope_names(scope[1].scope)
         ELSE <<>>

casgn_namespace(node, parents) ==
    join(parents \o scope_names(node.scope) \o <<node.name>>, NsSep)

full_ns(node) == join(reverse(scope_names(node.scope)) \o <<node.name>>, NsSep)

\* The pending calls: a node to visit, or the pop that ends a definition.
Visit(node) == [op |-> "visit", node |-> Some(node)]
PopParents == [op |-> "pop", node |-> None]

maybe_visit(opt) == IF opt = None THEN <<>> ELSE <<Visit(opt[1])>>

\* A plausible slip: the pop after the body is forgotten.
on_module_rest_no_pop(node) == maybe_visit(node.body)

\* What on_module does after pushing the name: the body, then the pop.
on_module_rest(node) == maybe_visit(node.body) \o <<PopParents>>

\* What on_class does after pushing the name: superclass, body, pop.
on_class_rest(node) ==
    maybe_visit(node.superclass) \o maybe_visit(node.body) \o <<PopParents>>

\* The syntax trees: definitions nested up to MaxNest deep, each body empty,
\* one statement, or a statement followed by a sibling.
Leaf == Const(None, NsZ)
Siblings ==
    { Class(Const(None, NsB), None, None),
      Casgn(Some(Const(Some(Const(None, NsA)), NsB)), NsD) }

RECURSIVE Stmts(_)
RECURSIVE Bodies(_)
Stmts(d) ==
    {Leaf} \cup
    (IF d = 0 THEN {}
     ELSE {Module(Const(None, NsA), b) : b \in Bodies(d - 1)}
          \cup {Class(Const(None, NsB), Some(Const(None, NsObject)), b) : b \in Bodies(d - 1)}
          \cup {Module(Const(Some(Const(None, NsA)), NsC), b) : b \in Bodies(d - 1)})
Bodies(d) ==
    {None} \cup {Some(x) : x \in Stmts(d)}
           \cup {Some(Begin(<<x, q>>)) : x \in Stmts(d), q \in Siblings}

AstChoices ==
    {None} \cup {Some(x) : x \in Stmts(MaxNest)} \cup {Some(Module(SelfNode, None))}

\* ruby_file has parsed the contents and built its visitor.
InitVisit ==
    /\ pc = "parse"
    /\ ast \in AstChoices
    /\ walk = <<>>
    /\ visitor = [file |-> FileMod, parents |-> <<>>, ruby_file |-> RubyFile(<<>>, <<>>)]
    /\ box_path = <<>>
    /\ ruby_box = RubyBox(<<>>, <<>>)
    /\ ignores = <<>>
    /\ violations = <<>>
    /\ defs = <<>>
    /\ rels = <<>>
    /\ PipelineIdle
    /\ CommandIdle

\* parser/mod.rs:176
StartVisit ==
    /\ pc = "parse"
    /\ ast # None
    /\ walk' = <<Visit(ast[1])>>
    /\ pc' = "visit"
    /\ UNCHANGED <<ast, visitor, enforceVars, corpusVars, pipeVars, cmdVars>>

\* parser/mod.rs:177-182: no syntax tree, an empty RubyFile.
NoAst ==
    /\ pc = "parse"
    /\ ast = None
    /\ pc' = "visited"
    /\ UNCHANGED <<visitVars, enforceVars, corpusVars, pipeVars, cmdVars>>

Visiting(kind) ==
    /\ pc = "visit"
    /\ walk # <<>>
    /\ Head(walk).op = "visit"
    /\ Head(walk).node[1].kind = kind

\* on_module up to the visit of the body.
VisitModule ==
    /\ Visiting("Module")
    /\ LET node == Head(walk).node[1]
       IN  /\ extract_name(node.name).ok
           /\ visitor' =
                  [visitor EXCEPT
                      !.ruby_file.definitions =
                          Append(@, Definition(namespace(node.name, visitor.parents), visitor.file)),
                      !.parents = Append(@, extract_name(node.name).name)]
           /\ walk' = on_module_rest(node) \o Tail(walk)
    /\ UNCHANGED <<pc, ast, enforceVars, corpusVars, pipeVars, cmdVars>>

\* on_class up to the visit of the superclass and the body.
VisitClass ==
    /\ Visiting("Class")
    /\ LET node == Head(walk).node[1]
       IN  /\ extract_name(node.name).ok
           /\ visitor' =
                  [visitor EXCEPT
                      !.ruby_file.definitions =
                          Append(@, Definition(namespace(node.name, visitor.parents), visitor.file)),
                      !.parents = Append(@, extract_name(node.name).name)]
           /\ walk' = on_class_rest(node) \o Tail(walk)
    /\ UNCHANGED <<pc, ast, enforceVars, corpusVars, pipeVars, cmdVars>>

\* parser/mod.rs:40, 57: the name is no Const and the unwrap panics.
VisitNotConst ==
    /\ \/ Visiting("Module")
       \/ Visiting("Class")
    /\ ~extract_name(Head(walk).node[1].name).ok
    /\ pc' = "aborted"
    /\ UNCHANGED <<visitVars, enforceVars, corpusVars, pipeVars, cmdVars>>

\* parser/mod.rs:52, 71: self.parents.pop() once the body has been visited.
LeaveDefinition ==
    /\ pc = "visit"
    /\ walk # <<>>
    /\ Head(walk).op = "pop"
    /\ visitor' = [visitor EXCEPT !.parents = pop(@)]
    /\ walk' = Tail(walk)
    /\ UNCHANGED <<pc, ast, enforceVars, corpusVars, pipeVars, cmdVars>>

\* on_casgn
VisitCasgn ==
    /\ Visiting("Casgn")
    /\ LET node == Head(walk).node[1]
       IN  visitor' =
               [visitor EXCEPT
                   !.ruby_file.definitions =
                       Append(@, Definition(casgn_namespace(node, visitor.parents), visitor.file))]
    /\ walk' = Tail(walk)
    /\ UNCHANGED <<pc, ast, enforceVars, corpusVars, pipeVars, cmdVars>>

\* on_const
VisitConst ==
    /\ Visiting("Const")
    /\ LET node == Head(walk).node[1]
       IN  visitor' =
               IF full_ns(node) \in RUBY THEN visitor
               ELSE [visitor EXCEPT
                        !.ruby_file.relations =
                            Append(@, Relation(join(visitor.parents, NsSep), full_ns(node),
                                               visitor.file, 1))]
    /\ walk' = Tail(walk)
    /\ UNCHANGED <<pc, ast, enforceVars, corpusVars, pipeVars, cmdVars>>

\* Any other node: its children are visited in order.
VisitBegin ==
    /\ Visiting("Begin")
    /\ LET node == Head(walk).node[1]
       IN  walk' = [i \in 1..Len(node.statements) |-> Visit(node.statements[i])] \o Tail(walk)
    /\ UNCHANGED <<pc, ast, visitor, enforceVars, corpusVars, pipeVars, cmdVars>>

\* parser/mod.rs:185-199: the walk is over and the RubyFile is returned.
VisitEnd ==
    /\ pc = "visit"
    /\ walk = <<>>
    /\ pc' = "visited"
    /\ UNCHANGED <<visitVars, enforceVars, corpusVars, pipeVars, cmdVars>>

NextVisit ==
    \/ StartVisit
    \/ NoAst
    \/ VisitModule
    \/ VisitClass
    \/ VisitNotConst
    \/ LeaveDefinition
    \/ VisitCasgn
    \/ VisitConst
    \/ VisitBegin
    \/ VisitEnd

SpecVisit == InitVisit /\ [][NextVisit]_vars

(* Properties of the visitor *)

\* The Definitions a tree declares, in source order: for a module or class
\* the chain of the enclosing definitions' names and its own, then those of
\* its body under the longer chain; a constant assignment declares one
\* Definition whose name is left open here.
RECURSIVE Declared(_, _)
RECURSIVE DeclaredAll(_, _)
Declared(node, chain) ==
    IF node.kind \in {"Module", "Class"}
    THEN LET full == chain \o <<node.name.name>>
         IN  <<[nested |-> TRUE, namespace |-> join(full, NsSep)]>>
                 \o (IF node.body = None THEN <<>> ELSE Declared(node.body[1], full))
    ELSE IF node.kind = "Begin" THEN DeclaredAll(node.statements, chain)
    ELSE IF node.kind = "Casgn" THEN <<[nested |-> FALSE, namespace |-> <<>>]>>
    ELSE <<>>
DeclaredAll(nodes, chain) ==
    IF nodes = <<>> THEN <<>>
    ELSE Declared(Head(nodes), chain) \o DeclaredAll(Tail(nodes), chain)

Emitted == visitor.ruby_file.definitions
PendingPops == Cardinality({i \in 1..Len(walk) : walk[i].op = "pop"})

\* C13: once a file is visited, the Definition of every module and class
\* carries the `::`-joined names of its enclosing modules and classes in
\* declaration order, ending with its own name (the last segment of a
\* qualified name), whatever the mix of modules and classes; a definition
\* after a sibling's body carries no segment of that body.  During the walk
\* every pushed segment has its pop pending, and none is left at the end.
C13_NestedNamespaces ==
    /\ pc = "visit" => Len(visitor.parents) = PendingPops
    /\ pc = "visited" =>
           /\ visitor.parents = <<>>
           /\ ast # None =>
                  LET declared == Declared(ast[1], <<>>)
                  IN  /\ Len(Emitted) = Len(declared)
                      /\ \A i \in 1..Len(declared) :
                             declared[i].nested =>
                                 Emitted[i] = Definition(declared[i].namespace, visitor.file)

\* module A; class B < Object; module A::C; end; end; class B; end; end
\* yields A, A::B, A::B::C and, after the body of the first B, A::B again.
C13_Witness ==
    /\ pc = "visited"
    /\ ast = Some(Module(Const(None, NsA),
                  Some(Begin(<<Class(Const(None, NsB), Some(Const(None, NsObject)),
                                     Some(Module(Const(Some(Const(None, NsA)), NsC), None))),
                               Class(Const(None, NsB), None, None)>>))))
    /\ Emitted = <<Definition(NsA, FileMod),
                   Definition(NsAB, FileMod),
                   Definition(Qualified(NsAB, NsC), FileMod),
                   Definition(NsAB, FileMod)>>

=============================================================================
